---- MODULE Spec2Model ----
(***************************************************************************)
(* Conversation History Store of the 17/17 bar bot                         *)
(* (src/src/storage/sqlite_history.py).                                    *)
(*                                                                         *)
(* One aiosqlite connection (self._db) is shared by every coroutine of the *)
(* process.  Each `await self._db.execute(...)` and each                   *)
(* `await self._db.commit()` is one step: aiosqlite runs the statements of *)
(* all coroutines one at a time on its worker thread, and coroutines       *)
(* interleave at the awaits.  The connection is in sqlite3's default       *)
(* (deferred, implicit BEGIN) mode, so the statements of all coroutines    *)
(* share one open transaction and any coroutine's commit() makes every     *)
(* pending change durable.                                                 *)
(***************************************************************************)
EXTENDS Integers, Sequences, FiniteSets, TLC

\* ------------------------------------------------------------- bounds
MaxWindow == 2      \* max_messages is drawn from 1..MaxWindow
MaxId     == 3      \* at most MaxId rows are ever inserted into messages
NumTasks  == 2      \* coroutines that call into the store
MaxClock  == 2      \* the clock read by datetime('now') runs over 0..MaxClock
TicksPerDay == 2    \* clock values that fall on one calendar day

\* ------------------------------------------------------------- domains
Tasks     == 1..NumTasks
UserIds   == {1, 2}
NULL      == "NULL"
Usernames == {NULL, "", "alice"}
ValidRoles == {"user", "assistant"}
Roles     == ValidRoles \cup {"system"}      \* "system" is a caller defect
Contents  == {"a", "b"}
Absent    == [present |-> FALSE, username |-> NULL, first_seen |-> 0, last_seen |-> 0]

VARIABLES
    db,                   \* self._db: "none" | "open"
    max_messages,         \* self._max_messages
    now,                  \* the value of datetime('now')
    users,                \* table users: user_id -> row (or Absent)
    messages,             \* table messages: set of rows
    seq,                  \* sqlite_sequence entry of messages (AUTOINCREMENT)
    banned_users,         \* table banned_users: set of user ids
    notification_admins,  \* table notification_admins: set of user ids
    disk,                 \* the committed (durable) content of the database
    inserted,             \* history: <<id, user_id>> of every INSERT into messages, in order
    recent,               \* history: per id, the latest ban/unban and add/remove statement
    admin_user_ids,       \* handlers.admin_user_ids: the configured administrators
    flow,                 \* per coroutine: the local variables of the handler it runs
    main,                 \* main(): where it stands
    pc,                   \* per coroutine: where it stands in its store call
    arg                   \* per coroutine: the arguments of its store call

vars == <<db, max_messages, now, users, messages, seq, banned_users,
          notification_admins, disk, inserted, recent, admin_user_ids, flow,
          main, pc, arg>>

bot == <<admin_user_ids, flow, main>>

tables == <<users, messages, seq, banned_users, notification_admins>>

NoStats == [total_users |-> 0, total_messages |-> 0, user_messages |-> 0,
            active_today |-> 0]

NoArg == [user_id |-> 0, role |-> "", content |-> "", username |-> NULL,
          rows |-> <<>>, count |-> 0, found |-> FALSE, op |-> "", stats |-> NoStats,
          id |-> 0]

\* a coroutine that runs no handler
NoFlow == [handler |-> "", at |-> "", sender |-> 0, target |-> 0, text |-> "",
           history |-> <<>>, response |-> "", turns |-> <<>>, calls |-> <<>>,
           before |-> {}, recipients |-> <<>>, attempted |-> <<>>,
           delivered |-> <<>>, sent |-> 0, failed |-> 0,
           \* history, of a conversation: the /start and /reset commands of
           \* the sender that arrived after its message and have not cleared
           \* yet, and whether one of them has completed its clear
           resets |-> {}, cleared |-> FALSE]

NoCalls == [ban |-> [u \in UserIds |-> "none"], admin |-> [u \in UserIds |-> "none"]]

\* ------------------------------------------------------------- SQL helpers
Max2(a, b) == IF a >= b THEN a ELSE b

MaxRowid(msgs) ==
    IF msgs = {} THEN 0
    ELSE CHOOSE i \in {m.id : m \in msgs} : \A m \in msgs : m.id <= i

\* Faulty variant: INTEGER PRIMARY KEY without AUTOINCREMENT: one more than the
\* largest rowid now in the table.
NextIdNoAutoincrement(msgs, s) == MaxRowid(msgs) + 1

\* INTEGER PRIMARY KEY AUTOINCREMENT: one more than the largest rowid that
\* ever existed in the table (kept in sqlite_sequence).
NextId(msgs, s) == Max2(s, MaxRowid(msgs)) + 1

OfUser(msgs, u) == {m \in msgs : m.user_id = u}

\* Faulty variant: the n oldest rows instead of the n newest
OldestIds(msgs, u, n) ==
    {m.id : m \in {x \in OfUser(msgs, u) :
                      n < 0 \/ Cardinality({y \in OfUser(msgs, u) : y.id < x.id}) < n}}

\* SELECT id FROM messages WHERE user_id = ? ORDER BY id DESC LIMIT ?
\* (a negative LIMIT is no limit in SQLite)
NewestIds(msgs, u, n) ==
    {m.id : m \in {x \in OfUser(msgs, u) :
                      n < 0 \/ Cardinality({y \in OfUser(msgs, u) : y.id > x.id}) < n}}

\* Faulty variant: the subquery forgets its WHERE user_id = ?
TrimIgnoresUser(msgs, u, n) ==
    {m \in msgs : m.user_id # u
                  \/ n < 0 \/ Cardinality({y \in msgs : y.id > m.id}) < n}

\* Faulty variant: keeps one row too many
TrimOffByOne(msgs, u, n) ==
    {m \in msgs : m.user_id # u \/ m.id \in NewestIds(msgs, u, n + 1)}

\* Faulty variant: the DELETE forgets its WHERE user_id = ?
TrimEveryUser(msgs, u, n) ==
    {m \in msgs : m.id \in NewestIds(msgs, u, n)}

\* DELETE FROM messages WHERE user_id = ? AND id NOT IN (<NewestIds>)
Trim(msgs, u, n) ==
    {m \in msgs : m.user_id # u \/ m.id \in NewestIds(msgs, u, n)}

\* Faulty variant: ... ORDER BY id DESC
RECURSIVE OrderByIdDesc(_)
OrderByIdDesc(S) ==
    IF S = {} THEN <<>>
    ELSE LET m == CHOOSE x \in S : \A y \in S : x.id >= y.id
         IN  <<m>> \o OrderByIdDesc(S \ {m})

\* ... ORDER BY id ASC
RECURSIVE OrderByIdAsc(_)
OrderByIdAsc(S) ==
    IF S = {} THEN <<>>
    ELSE LET m == CHOOSE x \in S : \A y \in S : x.id <= y.id
         IN  <<m>> \o OrderByIdAsc(S \ {m})

\* SELECT role, content FROM messages WHERE user_id = ? ORDER BY id ASC
HistoryRows(msgs, u) == OrderByIdAsc(OfUser(msgs, u))

get_history(msgs, u) ==
    [i \in 1..Len(HistoryRows(msgs, u)) |->
        [role |-> HistoryRows(msgs, u)[i].role,
         content |-> HistoryRows(msgs, u)[i].content]]

\* SELECT COUNT(*) FROM messages WHERE user_id = ?
get_message_count(msgs, u) == Cardinality(OfUser(msgs, u))

\* Faulty variant: username = excluded.username
CoalesceTakesNew(new, old) == new

\* COALESCE(excluded.username, users.username)
Coalesce(new, old) == IF new # NULL THEN new ELSE old

\* Faulty variant: INSERT OR REPLACE builds the row anew on every call.
UpsertRowReplace(row, name, t) ==
    [present |-> TRUE, username |-> Coalesce(name, row.username),
     first_seen |-> t, last_seen |-> t]

\* INSERT INTO users (user_id, username) ... ON CONFLICT(user_id) DO UPDATE
\* SET username = COALESCE(...), last_seen = datetime('now'); a new row takes
\* both column defaults, datetime('now').
UpsertRow(row, name, t) ==
    IF row.present
    THEN [present |-> TRUE, username |-> Coalesce(name, row.username),
          first_seen |-> row.first_seen, last_seen |-> t]
    ELSE [present |-> TRUE, username |-> name, first_seen |-> t, last_seen |-> t]

\* Faulty variant: no CHECK on the column and no type check of the argument
RoleAcceptedAny(r) == TRUE

\* role: Literal["user", "assistant"] (beartype) and
\* CHECK(role IN ('user', 'assistant'))
RoleAccepted(r) == r \in ValidRoles

\* PRAGMA foreign_keys is never switched on by init(), so SQLite does not
\* enforce the FOREIGN KEY clause of messages.
ForeignKeysEnforced == FALSE

Snapshot == [users |-> users, messages |-> messages, seq |-> seq,
             banned_users |-> banned_users,
             notification_admins |-> notification_admins]

\* ------------------------------------------------------------- Init
Init ==
    /\ db = "none"
    /\ max_messages \in 1..MaxWindow
    /\ now = 0
    /\ users = [u \in UserIds |-> Absent]
    /\ messages = {}
    /\ seq = 0
    /\ banned_users = {}
    /\ notification_admins = {}
    /\ disk = [users |-> [u \in UserIds |-> Absent], messages |-> {}, seq |-> 0,
               banned_users |-> {}, notification_admins |-> {}]
    /\ inserted = <<>>
    /\ recent = NoCalls
    /\ admin_user_ids = {}
    /\ flow = [t \in Tasks |-> NoFlow]
    /\ main = "start"
    /\ pc = [t \in Tasks |-> "idle"]
    /\ arg = [t \in Tasks |-> NoArg]

\* ------------------------------------------------------------- lifecycle
\* Faulty variant: the schema script drops the tables before it creates them.
init_recreates ==
    /\ db = "none"
    /\ db' = "open"
    /\ users' = [u \in UserIds |-> Absent]
    /\ messages' = {}
    /\ seq' = 0
    /\ banned_users' = {}
    /\ notification_admins' = {}
    /\ disk' = [users |-> [u \in UserIds |-> Absent], messages |-> {}, seq |-> 0,
                banned_users |-> {}, notification_admins |-> {}]
    /\ pc' = [t \in Tasks |-> "idle"]
    /\ arg' = [t \in Tasks |-> NoArg]
    /\ UNCHANGED <<bot, max_messages, now, inserted, recent>>

\* init(): connect, CREATE TABLE IF NOT EXISTS ..., commit.  It runs once, at
\* the start of a process, before any coroutine calls into the store; the
\* connection shows what the database file holds.
init ==
    /\ db = "none"
    /\ db' = "open"
    /\ pc' = [t \in Tasks |-> "idle"]
    /\ arg' = [t \in Tasks |-> NoArg]
    /\ UNCHANGED <<bot, max_messages, now, tables, disk, inserted, recent>>

\* close(): the connection is closed, which rolls back what was executed
\* and not committed, and self._db becomes None.
close ==
    /\ db = "open"
    /\ db' = "none"
    /\ users' = disk.users
    /\ messages' = disk.messages
    /\ seq' = disk.seq
    /\ banned_users' = disk.banned_users
    /\ notification_admins' = disk.notification_admins
    /\ UNCHANGED <<bot, max_messages, now, disk, inserted, recent, pc, arg>>

\* Time passes: the next datetime('now') is later.
tick ==
    /\ now < MaxClock
    /\ now' = now + 1
    /\ UNCHANGED <<bot, db, max_messages, tables, disk, inserted, recent, pc, arg>>

\* `await self._db.commit()` that ends a store call of coroutine t.
Commit(t) ==
    /\ db = "open"
    /\ disk' = Snapshot
    /\ pc' = [pc EXCEPT ![t] = "idle"]
    /\ arg' = [arg EXCEPT ![t] = NoArg]
    /\ UNCHANGED <<db, max_messages, now, tables, inserted, recent>>

\* Coroutines are interchangeable: a new store call is run by the lowest
\* numbered coroutine that is not inside a store call.
Free(t) ==
    /\ pc[t] = "idle"
    /\ flow[t].handler = "" => \A o \in Tasks : o < t => pc[o] # "idle"

Call(t, where, a) ==
    /\ pc' = [pc EXCEPT ![t] = where]
    /\ arg' = [arg EXCEPT ![t] = a]

\* ------------------------------------------------------------- store unavailable
\* Faulty variant: the operations do not look at self._db
StoreAvailableAlways == TRUE

\* assert self._db is not None
StoreAvailable == db = "open"

StoreOps ==
    {"upsert_user", "add_message", "get_history", "clear", "get_message_count",
     "get_all_user_ids", "get_stats", "ban_user", "unban_user", "is_banned",
     "get_all_users", "get_user_history", "export_data", "add_notification_admin",
     "remove_notification_admin", "get_notification_admin_ids"}

\* A store operation called while self._db is None: its first statement,
\* assert self._db is not None, raises.
store_unavailable(t, op) ==
    /\ ~StoreAvailable /\ Free(t)
    /\ Call(t, "raised", [NoArg EXCEPT !.op = op])
    /\ UNCHANGED <<bot, db, max_messages, now, tables, disk, inserted, recent>>

InsideRead ==
    {"get_stats_total_messages", "get_stats_user_messages", "get_stats_active_today",
     "export_data_get_stats"}

InsideWrite ==
    {"upsert_user_commit", "add_message_trim", "add_message_commit", "clear_commit",
     "ban_user_commit", "unban_user_commit", "add_notification_admin_commit",
     "remove_notification_admin_commit"}

\* A store operation that was between two statements when close() ran: its
\* next self._db.execute(...) or self._db.commit() raises, self._db is None.
statement_on_closed(t) ==
    /\ db = "none"
    /\ pc[t] \in InsideWrite \cup InsideRead
    /\ pc' = [pc EXCEPT ![t] = "raised"]
    /\ UNCHANGED <<bot, db, max_messages, now, tables, disk, inserted, recent, arg>>

\* ------------------------------------------------------------- upsert_user
upsert_user_execute(t, u, name) ==
    /\ StoreAvailable /\ Free(t)
    /\ users' = [users EXCEPT ![u] = UpsertRow(users[u], name, now)]
    /\ Call(t, "upsert_user_commit", [NoArg EXCEPT !.user_id = u, !.username = name])
    /\ UNCHANGED <<bot, db, max_messages, now, messages, seq, banned_users,
                   notification_admins, disk, inserted, recent>>

upsert_user_commit(t) ==
    /\ pc[t] = "upsert_user_commit"
    /\ Commit(t)
    /\ UNCHANGED bot

\* ------------------------------------------------------------- add_message
\* The call is refused before any statement runs (beartype rejects a role
\* outside Literal["user", "assistant"]; the CHECK constraint of the column
\* would refuse the INSERT as well).
add_message_rejected(t, u, r, c) ==
    /\ StoreAvailable /\ Free(t)
    /\ \/ ~RoleAccepted(r)
       \/ ForeignKeysEnforced /\ ~users[u].present
    /\ Call(t, "raised", [NoArg EXCEPT !.user_id = u, !.role = r, !.content = c])
    /\ UNCHANGED <<bot, db, max_messages, now, tables, disk, inserted, recent>>

\* The exception leaves the store call and reaches the calling flow.
raise_propagates(t) ==
    /\ pc[t] = "raised"
    /\ pc' = [pc EXCEPT ![t] = "idle"]
    /\ arg' = [arg EXCEPT ![t] = NoArg]
    /\ UNCHANGED <<bot, db, max_messages, now, tables, disk, inserted, recent>>

add_message_insert(t, u, r, c) ==
    /\ StoreAvailable /\ Free(t)
    /\ RoleAccepted(r)
    /\ ForeignKeysEnforced => users[u].present
    /\ seq < MaxId
    /\ messages' = messages \cup
          {[id |-> NextId(messages, seq), user_id |-> u, role |-> r,
            content |-> c, created_at |-> now]}
    /\ seq' = NextId(messages, seq)
    /\ inserted' = Append(inserted, <<NextId(messages, seq), u>>)
    /\ Call(t, "add_message_trim",
            [NoArg EXCEPT !.user_id = u,
                          \* history, for a call of a handler: the rowid given
                          !.id = IF flow[t].handler = "" THEN 0
                                 ELSE NextId(messages, seq)])
    /\ UNCHANGED <<bot, db, max_messages, now, users, banned_users, notification_admins,
                   disk, recent>>

add_message_trim(t) ==
    /\ db = "open"
    /\ pc[t] = "add_message_trim"
    /\ messages' = Trim(messages, arg[t].user_id, max_messages)
    /\ pc' = [pc EXCEPT ![t] = "add_message_commit"]
    /\ UNCHANGED <<bot, db, max_messages, now, users, seq, banned_users,
                   notification_admins, disk, inserted, recent, arg>>

add_message_commit(t) ==
    /\ pc[t] = "add_message_commit"
    /\ Commit(t)
    /\ UNCHANGED bot

\* ------------------------------------------------------------- clear
\* Faulty variant: DELETE FROM messages without its WHERE user_id = ?
clear_execute_everyone(t, u) ==
    /\ StoreAvailable /\ Free(t)
    /\ messages' = {}
    /\ Call(t, "clear_commit", [NoArg EXCEPT !.user_id = u])
    /\ UNCHANGED <<bot, db, max_messages, now, users, seq, banned_users,
                   notification_admins, disk, inserted, recent>>

\* Faulty variant: the reset also forgets the user
clear_execute_drops_user(t, u) ==
    /\ StoreAvailable /\ Free(t)
    /\ messages' = {m \in messages : m.user_id # u}
    /\ users' = [users EXCEPT ![u] = Absent]
    /\ Call(t, "clear_commit", [NoArg EXCEPT !.user_id = u])
    /\ UNCHANGED <<bot, db, max_messages, now, seq, banned_users,
                   notification_admins, disk, inserted, recent>>

\* DELETE FROM messages WHERE user_id = ?
clear_execute(t, u) ==
    /\ StoreAvailable /\ Free(t)
    /\ messages' = {m \in messages : m.user_id # u}
    /\ Call(t, "clear_commit", [NoArg EXCEPT !.user_id = u])
    /\ UNCHANGED <<bot, db, max_messages, now, users, seq, banned_users,
                   notification_admins, disk, inserted, recent>>

clear_commit(t) ==
    /\ pc[t] = "clear_commit"
    /\ Commit(t)
    /\ UNCHANGED bot

\* ------------------------------------------------------------- reads
\* get_history: one SELECT; the list it builds is held by the caller.
get_history_execute(t, u) ==
    /\ StoreAvailable /\ Free(t)
    /\ Call(t, "get_history_return",
            [NoArg EXCEPT !.user_id = u, !.rows = get_history(messages, u)])
    /\ UNCHANGED <<bot, db, max_messages, now, tables, disk, inserted, recent>>

\* get_message_count: one SELECT COUNT(*).
get_message_count_execute(t, u) ==
    /\ StoreAvailable /\ Free(t)
    /\ Call(t, "get_message_count_return",
            [NoArg EXCEPT !.user_id = u, !.count = get_message_count(messages, u)])
    /\ UNCHANGED <<bot, db, max_messages, now, tables, disk, inserted, recent>>

\* ------------------------------------------------------------- ban list
\* Faulty variant: DELETE without its WHERE user_id = ?
DeleteAll(ids, u) == {}

\* DELETE FROM <table> WHERE user_id = ?
DeleteId(ids, u) == ids \ {u}

\* Faulty variant: the table is rebuilt around the new id
InsertAlone(ids, u) == {u}

\* INSERT OR IGNORE INTO <table> (user_id) VALUES (?)
InsertOrIgnore(ids, u) == ids \cup {u}

\* SELECT 1 FROM banned_users WHERE user_id = ? ... fetchone() is not None
is_banned(ids, u) == u \in ids

\* Faulty variant: the ban also takes the notification subscription away
ban_user_execute_demotes(t, u) ==
    /\ StoreAvailable /\ Free(t)
    /\ banned_users' = InsertOrIgnore(banned_users, u)
    /\ notification_admins' = DeleteId(notification_admins, u)
    /\ recent' = [recent EXCEPT !.ban[u] = "ban"]
    /\ Call(t, "ban_user_commit", [NoArg EXCEPT !.user_id = u])
    /\ UNCHANGED <<bot, db, max_messages, now, users, messages, seq, disk, inserted>>

ban_user_execute(t, u) ==
    /\ StoreAvailable /\ Free(t)
    /\ banned_users' = InsertOrIgnore(banned_users, u)
    /\ recent' = [recent EXCEPT !.ban[u] = "ban"]
    /\ Call(t, "ban_user_commit", [NoArg EXCEPT !.user_id = u])
    /\ UNCHANGED <<bot, db, max_messages, now, users, messages, seq,
                   notification_admins, disk, inserted>>

ban_user_commit(t) ==
    /\ pc[t] = "ban_user_commit"
    /\ Commit(t)
    /\ UNCHANGED bot

unban_user_execute(t, u) ==
    /\ StoreAvailable /\ Free(t)
    /\ banned_users' = DeleteId(banned_users, u)
    /\ recent' = [recent EXCEPT !.ban[u] = "unban"]
    /\ Call(t, "unban_user_commit", [NoArg EXCEPT !.user_id = u])
    /\ UNCHANGED <<bot, db, max_messages, now, users, messages, seq,
                   notification_admins, disk, inserted>>

unban_user_commit(t) ==
    /\ pc[t] = "unban_user_commit"
    /\ Commit(t)
    /\ UNCHANGED bot

is_banned_execute(t, u) ==
    /\ StoreAvailable /\ Free(t)
    /\ Call(t, "is_banned_return",
            [NoArg EXCEPT !.user_id = u, !.found = is_banned(banned_users, u)])
    /\ UNCHANGED <<bot, db, max_messages, now, tables, disk, inserted, recent>>

\* ------------------------------------------------------------- notification admins
\* The rows of a table keyed by user_id INTEGER PRIMARY KEY, as a full scan
\* yields them: in rowid order, which is user_id order.
RECURSIVE ScanIds(_)
ScanIds(ids) ==
    IF ids = {} THEN <<>>
    ELSE LET i == CHOOSE x \in ids : \A y \in ids : x <= y
         IN  <<i>> \o ScanIds(ids \ {i})

\* SELECT user_id FROM notification_admins ... [row[0] async for row in cursor]
get_notification_admin_ids(ids) == ScanIds(ids)

add_notification_admin_execute(t, u) ==
    /\ StoreAvailable /\ Free(t)
    /\ notification_admins' = InsertOrIgnore(notification_admins, u)
    /\ recent' = [recent EXCEPT !.admin[u] = "add"]
    /\ Call(t, "add_notification_admin_commit", [NoArg EXCEPT !.user_id = u])
    /\ UNCHANGED <<bot, db, max_messages, now, users, messages, seq, banned_users,
                   disk, inserted>>

add_notification_admin_commit(t) ==
    /\ pc[t] = "add_notification_admin_commit"
    /\ Commit(t)
    /\ UNCHANGED bot

remove_notification_admin_execute(t, u) ==
    /\ StoreAvailable /\ Free(t)
    /\ notification_admins' = DeleteId(notification_admins, u)
    /\ recent' = [recent EXCEPT !.admin[u] = "remove"]
    /\ Call(t, "remove_notification_admin_commit", [NoArg EXCEPT !.user_id = u])
    /\ UNCHANGED <<bot, db, max_messages, now, users, messages, seq, banned_users,
                   disk, inserted>>

remove_notification_admin_commit(t) ==
    /\ pc[t] = "remove_notification_admin_commit"
    /\ Commit(t)
    /\ UNCHANGED bot

\* SELECT user_id FROM users
get_all_user_ids(us) == ScanIds({u \in UserIds : us[u].present})

get_all_user_ids_execute(t) ==
    /\ StoreAvailable /\ Free(t)
    /\ Call(t, "get_all_user_ids_return",
            [NoArg EXCEPT !.rows = get_all_user_ids(users)])
    /\ UNCHANGED <<bot, db, max_messages, now, tables, disk, inserted, recent>>

get_notification_admin_ids_execute(t) ==
    /\ StoreAvailable /\ Free(t)
    /\ Call(t, "get_notification_admin_ids_return",
            [NoArg EXCEPT !.rows = get_notification_admin_ids(notification_admins)])
    /\ UNCHANGED <<bot, db, max_messages, now, tables, disk, inserted, recent>>

\* ------------------------------------------------------------- get_stats
\* SELECT COUNT(*) FROM users
total_users(us) == Cardinality({u \in UserIds : us[u].present})

\* SELECT COUNT(*) FROM messages
total_messages(msgs) == Cardinality(msgs)

\* Faulty variant: the WHERE role = 'user' is missing
user_messages_any_role(msgs) == Cardinality(msgs)

\* SELECT COUNT(*) FROM messages WHERE role = 'user'
user_messages(msgs) == Cardinality({m \in msgs : m.role = "user"})

\* date('now'): the first clock value of the current day
DateOf(t) == t - (t % TicksPerDay)

\* SELECT COUNT(DISTINCT user_id) FROM messages WHERE created_at >= date('now')
active_today(msgs, t) ==
    Cardinality({m.user_id : m \in {x \in msgs : x.created_at >= DateOf(t)}})

\* The four SELECTs of get_stats run one after another, each behind an await;
\* the dictionary under construction is held by the caller.
get_stats_total_users(t) ==
    /\ StoreAvailable /\ Free(t)
    /\ Call(t, "get_stats_total_messages",
            [NoArg EXCEPT !.stats.total_users = total_users(users)])
    /\ UNCHANGED <<bot, db, max_messages, now, tables, disk, inserted, recent>>

get_stats_total_messages(t) ==
    /\ db = "open"
    /\ pc[t] = "get_stats_total_messages"
    /\ Call(t, "get_stats_user_messages",
            [arg[t] EXCEPT !.stats.total_messages = total_messages(messages)])
    /\ UNCHANGED <<bot, db, max_messages, now, tables, disk, inserted, recent>>

get_stats_user_messages(t) ==
    /\ db = "open"
    /\ pc[t] = "get_stats_user_messages"
    /\ Call(t, "get_stats_active_today",
            [arg[t] EXCEPT !.stats.user_messages = user_messages(messages)])
    /\ UNCHANGED <<bot, db, max_messages, now, tables, disk, inserted, recent>>

get_stats_active_today(t) ==
    /\ db = "open"
    /\ pc[t] = "get_stats_active_today"
    /\ Call(t, "get_stats_return",
            [arg[t] EXCEPT !.stats.active_today = active_today(messages, now)])
    /\ UNCHANGED <<bot, db, max_messages, now, tables, disk, inserted, recent>>

\* ------------------------------------------------------------- get_all_users
\* One row of the SELECT of get_all_users for the users row of u.
UserRecord(us, msgs, banned, u) ==
    [user_id    |-> u,
     username   |-> us[u].username,
     first_seen |-> us[u].first_seen,
     last_seen  |-> us[u].last_seen,
     msg_count  |-> Cardinality({m \in OfUser(msgs, u) : m.role = "user"}),
     is_banned  |-> u \in banned]

\* Faulty variant: ORDER BY u.last_seen ASC
RECURSIVE OrderByLastSeenAsc(_, _)
OrderByLastSeenAsc(ids, us) ==
    IF ids = {} THEN <<>>
    ELSE LET u == CHOOSE x \in ids : \A y \in ids :
                     \/ us[x].last_seen < us[y].last_seen
                     \/ us[x].last_seen = us[y].last_seen /\ x <= y
         IN  <<u>> \o OrderByLastSeenAsc(ids \ {u}, us)

\* Faulty variant: rows with equal last_seen come in the order in which the
\* connection last wrote them, here the order of their latest ban statement
RECURSIVE OrderByLastSeenDescUnstable(_, _)
OrderByLastSeenDescUnstable(ids, us) ==
    IF ids = {} THEN <<>>
    ELSE LET u == CHOOSE x \in ids : \A y \in ids :
                     \/ us[x].last_seen > us[y].last_seen
                     \/ /\ us[x].last_seen = us[y].last_seen
                        /\ IF (recent.ban[x] = "unban") = (recent.ban[y] = "unban")
                           THEN x <= y
                           ELSE recent.ban[x] = "unban"
         IN  <<u>> \o OrderByLastSeenDescUnstable(ids \ {u}, us)

\* FROM users u ORDER BY u.last_seen DESC: the table is scanned in rowid
\* order, which is user_id order, and the sort keeps rows with equal
\* last_seen in scan order.
RECURSIVE OrderByLastSeenDesc(_, _)
OrderByLastSeenDesc(ids, us) ==
    IF ids = {} THEN <<>>
    ELSE LET u == CHOOSE x \in ids : \A y \in ids :
                     \/ us[x].last_seen > us[y].last_seen
                     \/ us[x].last_seen = us[y].last_seen /\ x <= y
         IN  <<u>> \o OrderByLastSeenDesc(ids \ {u}, us)

get_all_users(us, msgs, banned) ==
    LET order == OrderByLastSeenDesc({u \in UserIds : us[u].present}, us)
    IN  [i \in 1..Len(order) |-> UserRecord(us, msgs, banned, order[i])]

get_all_users_execute(t) ==
    /\ StoreAvailable /\ Free(t)
    /\ Call(t, "get_all_users_return",
            [NoArg EXCEPT !.rows = get_all_users(users, messages, banned_users)])
    /\ UNCHANGED <<bot, db, max_messages, now, tables, disk, inserted, recent>>

\* ------------------------------------------------------------- export_data
\* u['username'] or <dash>: None and the empty string both print as a dash
Shown(name) == IF name \in {NULL, ""} THEN "-" ELSE name

\* f"ID: {user_id} | @{username or <dash>} | ...: {msg_count} | ...:
\* {first_seen} | ...: {last_seen}{banned_mark}"
UserLine(r) ==
    [user_id     |-> r.user_id,
     username    |-> Shown(r.username),
     msg_count   |-> r.msg_count,
     first_seen  |-> r.first_seen,
     last_seen   |-> r.last_seen,
     banned_mark |-> IF r.is_banned THEN " [BANNED]" ELSE ""]

\* The report: the header with len(users), one line per record of
\* get_all_users() in its order, and the section of three figures of
\* get_stats().
ExportText(rows, stats) ==
    [total_users    |-> Len(rows),
     lines          |-> [i \in 1..Len(rows) |-> UserLine(rows[i])],
     total_messages |-> stats.total_messages,
     user_messages  |-> stats.user_messages,
     active_today   |-> stats.active_today]

\* users = await self.get_all_users()
export_data_get_all_users(t) ==
    /\ StoreAvailable /\ Free(t)
    /\ Call(t, "export_data_get_stats",
            [NoArg EXCEPT !.op = "export_data",
                          !.rows = get_all_users(users, messages, banned_users)])
    /\ UNCHANGED <<bot, db, max_messages, now, tables, disk, inserted, recent>>

\* stats = await self.get_stats(): its first SELECT; the other three are
\* the steps of get_stats, and the text is complete when the last one returns.
export_data_get_stats(t) ==
    /\ db = "open"
    /\ pc[t] = "export_data_get_stats"
    /\ Call(t, "get_stats_total_messages",
            [arg[t] EXCEPT !.stats.total_users = total_users(users)])
    /\ UNCHANGED <<bot, db, max_messages, now, tables, disk, inserted, recent>>

\* The caller takes the value of a read and goes on.
read_returns(t) ==
    /\ pc[t] \in {"get_history_return", "get_message_count_return",
                 "is_banned_return", "get_notification_admin_ids_return",
                 "get_all_user_ids_return",
                 "get_stats_return", "get_all_users_return"}
    /\ pc' = [pc EXCEPT ![t] = "idle"]
    /\ arg' = [arg EXCEPT ![t] = NoArg]
    /\ UNCHANGED <<bot, db, max_messages, now, tables, disk, inserted, recent>>

\* ------------------------------------------------------------- Next
AddMessageStep(t) ==
    \/ \E u \in UserIds, r \in Roles, c \in Contents : add_message_insert(t, u, r, c)
    \/ add_message_trim(t)
    \/ add_message_commit(t)

RejectStep(t) ==
    \/ \E u \in UserIds, r \in Roles, c \in Contents : add_message_rejected(t, u, r, c)
    \/ raise_propagates(t)

ClearStep(t) ==
    \/ \E u \in UserIds : clear_execute(t, u)
    \/ clear_commit(t)

UpsertStep(t) ==
    \/ \E u \in UserIds, n \in Usernames : upsert_user_execute(t, u, n)
    \/ upsert_user_commit(t)

\* upsert_user for a sender without a username (username = None)
UpsertAnonStep(t) ==
    \/ \E u \in UserIds : upsert_user_execute(t, u, NULL)
    \/ upsert_user_commit(t)

ReadStep(t) ==
    \/ \E u \in UserIds : get_history_execute(t, u)
    \/ \E u \in UserIds : get_message_count_execute(t, u)
    \/ read_returns(t)

BanStep(t) ==
    \/ \E u \in UserIds : ban_user_execute(t, u)
    \/ ban_user_commit(t)
    \/ \E u \in UserIds : unban_user_execute(t, u)
    \/ unban_user_commit(t)

AdminStep(t) ==
    \/ \E u \in UserIds : add_notification_admin_execute(t, u)
    \/ add_notification_admin_commit(t)
    \/ \E u \in UserIds : remove_notification_admin_execute(t, u)
    \/ remove_notification_admin_commit(t)

BanReadStep(t) ==
    \/ \E u \in UserIds : is_banned_execute(t, u)
    \/ read_returns(t)

AdminReadStep(t) ==
    \/ get_notification_admin_ids_execute(t)
    \/ read_returns(t)

StatsStep(t) ==
    \/ get_stats_total_users(t)
    \/ get_stats_total_messages(t)
    \/ get_stats_user_messages(t)
    \/ get_stats_active_today(t)
    \/ read_returns(t)

ExportStep(t) ==
    \/ export_data_get_all_users(t)
    \/ export_data_get_stats(t)
    \/ get_stats_total_messages(t)
    \/ get_stats_user_messages(t)
    \/ get_stats_active_today(t)
    \/ read_returns(t)

RosterStep(t) ==
    \/ get_all_users_execute(t)
    \/ read_returns(t)

UnavailableStep(t) ==
    \/ \E op \in StoreOps : store_unavailable(t, op)
    \/ statement_on_closed(t)
    \/ raise_propagates(t)

Step(t) ==
    \/ UnavailableStep(t)
    \/ UpsertStep(t) \/ AddMessageStep(t) \/ RejectStep(t) \/ ClearStep(t) \/ ReadStep(t)
    \/ BanStep(t) \/ AdminStep(t) \/ BanReadStep(t) \/ AdminReadStep(t) \/ StatsStep(t)
    \/ RosterStep(t) \/ ExportStep(t)

Next == init \/ close \/ tick \/ \E t \in Tasks : Step(t)

Spec == Init /\ [][Next]_vars

\* Store calls issued one after another: a call starts only when no other
\* coroutine is inside a store call.
OthersIdle(t) == \A o \in Tasks \ {t} : pc[o] = "idle"
NextSeq ==
    \/ init
    \/ \E t \in Tasks :
          /\ OthersIdle(t)
          /\ (AddMessageStep(t) \/ RejectStep(t) \/ ClearStep(t) \/ UpsertAnonStep(t))
SpecSeq == Init /\ [][NextSeq]_vars

\* Concurrent add_message calls only.
NextAdd == init \/ \E t \in Tasks : AddMessageStep(t)
SpecAdd == Init /\ [][NextAdd]_vars

\* Concurrent writers and readers of the message windows.
NextWindow == init \/ \E t \in Tasks : (AddMessageStep(t) \/ ClearStep(t) \/ ReadStep(t))
SpecWindow == Init /\ [][NextWindow]_vars

\* Concurrent upsert_user calls.
NextUsers == init \/ \E t \in Tasks : UpsertStep(t)
SpecUsers == Init /\ [][NextUsers]_vars

\* add_message running concurrently with upsert_user on the shared connection.
NextDurable == init \/ \E t \in Tasks : (AddMessageStep(t) \/ UpsertAnonStep(t))
SpecDurable == Init /\ [][NextDurable]_vars

\* ------------------------------------------------------------- properties
Quiescent == \A t \in Tasks : pc[t] = "idle"

Min2(a, b) == IF a <= b THEN a ELSE b

\* ids of the rows ever inserted for user u
InsertedIds(u) == {inserted[i][1] : i \in {j \in 1..Len(inserted) : inserted[j][2] = u}}

\* C1 Window bound: with store calls issued one after another and
\* max_messages >= 1, between calls (so after every completed add_message)
\* get_message_count(u) <= max_messages for every user u.
C1_WindowBound ==
    Quiescent => \A u \in UserIds : get_message_count(messages, u) <= max_messages

\* a completed add_message whose trim had rows to delete left a full window
C1_Witness ==
    /\ Quiescent
    /\ \E u \in UserIds :
          /\ get_message_count(messages, u) = max_messages
          /\ Cardinality(InsertedIds(u)) > max_messages

\* C2 Keep-newest trim: the trim of add_message(u, ...) retains exactly the
\* min(k, max_messages) rows of u with the highest ids among the k rows of u
\* that existed right after the insert, and deletes every older row of u.
C2_KeepNewest ==
    [][\A t \in Tasks :
          add_message_trim(t) =>
             LET u      == arg[t].user_id
                 before == OfUser(messages, u)
                 after  == OfUser(messages', u)
             IN  /\ after \subseteq before
                 /\ Cardinality(after) = Min2(Cardinality(before), max_messages)
                 /\ \A k \in after, d \in before \ after : k.id > d.id]_vars

\* a trim has just deleted the oldest row of u and kept the row just inserted
C2_Witness ==
    \E t \in Tasks :
       /\ pc[t] = "add_message_commit"
       /\ LET u == arg[t].user_id
          IN  /\ inserted[Len(inserted)][1] \in {m.id : m \in OfUser(messages, u)}
              /\ \E i \in InsertedIds(u) :
                    /\ i \notin {m.id : m \in messages}
                    /\ \A m \in OfUser(messages, u) : i < m.id
              /\ get_message_count(messages, u) = max_messages

\* C7 Message ids are strictly increasing and never reused: every INSERT
\* assigns an id greater than every id assigned before it, also when the
\* rows that carried those ids were deleted by a trim or by clear.
C7_IdsIncrease ==
    \A i, j \in 1..Len(inserted) : i < j => inserted[i][1] < inserted[j][1]

\* an INSERT after clear emptied the table: the only row left is the newest
\* one although max_messages = 2 would have kept two
C7_Witness ==
    /\ max_messages = 2
    /\ Len(inserted) = 3
    /\ \A i \in 1..3 : inserted[i][2] = inserted[1][2]
    /\ {m.id : m \in messages} = {inserted[3][1]}

\* C9 add_message with a role other than 'user' or 'assistant' fails and
\* leaves the message set unchanged; every retained message has a role in
\* {user, assistant}.
C9_RoleConstraint ==
    /\ [](\A m \in messages : m.role \in ValidRoles)
    /\ [][\A t \in Tasks :
             (\E u \in UserIds, c \in Contents : add_message_rejected(t, u, "system", c))
                => messages' = messages /\ seq' = seq /\ pc'[t] = "raised"]_vars

\* a call with role "system" has raised while messages are stored
C9_Witness ==
    \E t \in Tasks : pc[t] = "raised" /\ arg[t].role = "system" /\ messages # {}

\* C10 Username preservation (absent value): upsert_user(u, None) on an
\* existing user leaves the stored username as it was.
C10_UsernamePreserved ==
    [][\A t \in Tasks, u \in UserIds :
          (upsert_user_execute(t, u, NULL) /\ users[u].present)
             => users'[u].username = users[u].username]_vars

\* upsert_user(u, None) has run on a user whose recorded name is "alice"
C10_Witness ==
    \E t \in Tasks :
       /\ pc[t] = "upsert_user_commit"
       /\ arg[t].username = NULL
       /\ users[arg[t].user_id].username = "alice"
       /\ disk.users[arg[t].user_id].username = "alice"

\* the n largest members of a set of ids
TopOf(S, n) == {i \in S : Cardinality({j \in S : j > i}) < n}

\* C3 Concurrent trim safety: when add_message calls interleave their
\* insert, trim and commit steps in any order, then once all calls have
\* completed each user holds exactly min(inserted, max_messages) rows, the
\* ones with the highest ids among all rows inserted for that user; and no
\* trim leaves more than max_messages rows of its user or deletes a row that
\* is among the newest max_messages of its user.
C3_ConcurrentTrimSafety ==
    /\ [](Quiescent =>
            \A u \in UserIds :
               /\ {m.id : m \in OfUser(messages, u)} = TopOf(InsertedIds(u), max_messages)
               /\ get_message_count(messages, u)
                     = Min2(Cardinality(InsertedIds(u)), max_messages))
    /\ [][\A t \in Tasks :
             add_message_trim(t) =>
                LET u      == arg[t].user_id
                    before == OfUser(messages, u)
                    after  == OfUser(messages', u)
                IN  /\ Cardinality(after) <= max_messages
                    /\ \A d \in before \ after :
                          Cardinality({x \in before : x.id > d.id}) >= max_messages]_vars

\* two add_message calls for one user have both inserted and neither has
\* trimmed yet
C3_Witness ==
    /\ \A t \in Tasks : pc[t] = "add_message_trim"
    /\ \E u \in UserIds :
          /\ \A t \in Tasks : arg[t].user_id = u
          /\ get_message_count(messages, u) > max_messages

\* C4 At every moment, also between the insert and the trim of a running
\* add_message, get_history(u) returns at most max_messages entries and
\* get_message_count(u) returns at most max_messages.
C4_ReadsWithinWindow ==
    \A t \in Tasks :
       /\ pc[t] = "get_history_return" => Len(arg[t].rows) <= max_messages
       /\ pc[t] = "get_message_count_return" => arg[t].count <= max_messages

\* C5 Insert and trim are committed as one unit: every committed state of
\* the store holds at most max_messages messages per user.
C5_DurableWindowBound ==
    \A u \in UserIds : get_message_count(disk.messages, u) <= max_messages

\* C6 get_history(u) returns exactly the rows retained for u at the time of
\* the read, as {role, content} pairs in strictly ascending id order: entry
\* i is the row of u that has exactly i - 1 rows of u with a smaller id.
C6_HistoryAscending ==
    [][\A t \in Tasks, u \in UserIds :
          get_history_execute(t, u) =>
             LET h == arg'[t].rows
             IN  /\ Len(h) = Cardinality(OfUser(messages, u))
                 /\ \A m \in OfUser(messages, u) :
                       LET i == 1 + Cardinality({x \in OfUser(messages, u) : x.id < m.id})
                       IN  h[i] = [role |-> m.role, content |-> m.content]]_vars

\* a read has returned two or more entries that differ
C6_Witness ==
    \E t \in Tasks :
       /\ pc[t] = "get_history_return"
       /\ Len(arg[t].rows) >= 2
       /\ arg[t].rows[1] # arg[t].rows[2]

\* C8 Referential integrity: every retained message refers to an existing
\* User row.
C8_ReferentialIntegrity ==
    \A m \in messages : users[m.user_id].present

\* C11 Username preservation (empty value): upsert_user(u, "") on an
\* existing user whose stored username n is non-empty leaves the stored
\* username equal to n.
C11_EmptyUsernamePreserved ==
    [][\A t \in Tasks, u \in UserIds :
          (/\ upsert_user_execute(t, u, "")
           /\ users[u].present
           /\ users[u].username \notin {NULL, ""})
             => users'[u].username = users[u].username]_vars

\* ------------------------------------------------------------- a used database
\* The database file left by an earlier run in which upsert_user(1, "alice"),
\* add_message(1, "user", "a") and add_message(2, "assistant", "b") completed
\* and some ids were banned or subscribed to notifications.
SeedUsers ==
    [u \in UserIds |->
        IF u = 1
        THEN [present |-> TRUE, username |-> "alice", first_seen |-> 0, last_seen |-> 0]
        ELSE Absent]

SeedMessages ==
    {[id |-> 1, user_id |-> 1, role |-> "user", content |-> "a", created_at |-> 0],
     [id |-> 2, user_id |-> 2, role |-> "assistant", content |-> "b", created_at |-> 0]}

SeedCalls(b, a) ==
    [ban   |-> [u \in UserIds |-> IF u \in b THEN "ban" ELSE "none"],
     admin |-> [u \in UserIds |-> IF u \in a THEN "add" ELSE "none"]]

InitSeeded ==
    /\ db = "none"
    /\ max_messages \in 1..MaxWindow
    /\ now = 0
    /\ users = SeedUsers
    /\ messages = SeedMessages
    /\ seq = 2
    /\ banned_users \in SUBSET UserIds
    /\ notification_admins \in SUBSET UserIds
    /\ disk = Snapshot
    /\ inserted = <<<<1, 1>>, <<2, 2>>>>
    /\ recent = SeedCalls(banned_users, notification_admins)
    /\ admin_user_ids = {}
    /\ flow = [t \in Tasks |-> NoFlow]
    /\ main = "start"
    /\ pc = [t \in Tasks |-> "idle"]
    /\ arg = [t \in Tasks |-> NoArg]

\* Ban, unban and is_banned calls of interleaving coroutines.
NextBan == init \/ \E t \in Tasks : (BanStep(t) \/ BanReadStep(t))

SpecBan == InitSeeded /\ [][NextBan]_vars

\* Notification-admin calls of interleaving coroutines.
NextAdmin == init \/ \E t \in Tasks : (AdminStep(t) \/ AdminReadStep(t))

SpecAdmin == InitSeeded /\ [][NextAdmin]_vars

\* Writes to the ban list and to the notification-admin list by
\* interleaving coroutines.
NextAccess == init \/ \E t \in Tasks : (BanStep(t) \/ AdminStep(t))

SpecAccess == InitSeeded /\ [][NextAccess]_vars

\* Every operation that writes, issued one after another.
NextFrame ==
    \/ init
    \/ \E t \in Tasks :
          /\ OthersIdle(t)
          /\ \/ UpsertAnonStep(t) \/ AddMessageStep(t) \/ ClearStep(t)
             \/ BanStep(t) \/ AdminStep(t)

SpecFrame == InitSeeded /\ [][NextFrame]_vars

\* ------------------------------------------------------------- lifecycle
\* A used database that is opened, written by calls issued one after
\* another, closed at any moment, also inside a call, and opened again by the
\* next process.
NextLife ==
    \/ init
    \/ close
    \/ \E t \in Tasks :
          /\ OthersIdle(t)
          /\ \/ UpsertAnonStep(t) \/ ClearStep(t) \/ BanStep(t) \/ AdminStep(t)
             \/ statement_on_closed(t) \/ raise_propagates(t)

SpecLife == InitSeeded /\ [][NextLife]_vars

\* Calls into a store that is not open yet, is open, or was closed.
NextDown == init \/ close \/ \E t \in Tasks : (AdminStep(t) \/ UnavailableStep(t))

SpecDown == Init /\ [][NextDown]_vars

\* ------------------------------------------------------------- statistics
\* Upserts, appends and get_stats issued one after another: get_stats runs
\* on a store with no other call in flight.
NextStats ==
    \/ init
    \/ \E t \in Tasks :
          OthersIdle(t) /\ (UpsertAnonStep(t) \/ AddMessageStep(t) \/ StatsStep(t))

SpecStats == Init /\ [][NextStats]_vars

\* ------------------------------------------------------------- user list
\* A used database; upserts, clears and get_all_users issued one after
\* another while time passes.
NextRoster ==
    \/ init
    \/ tick
    \/ \E t \in Tasks :
          OthersIdle(t) /\ (UpsertAnonStep(t) \/ ClearStep(t) \/ RosterStep(t))

SpecRoster == InitSeeded /\ [][NextRoster]_vars

\* ------------------------------------------------------------- export
\* A used database; export_data while other coroutines append and clear.
NextExport ==
    init \/ \E t \in Tasks : (AddMessageStep(t) \/ ClearStep(t) \/ ExportStep(t))

SpecExport == InitSeeded /\ [][NextExport]_vars

\* ------------------------------------------------------------- report
\* A used database; upserts, bans, clears and export_data issued one after
\* another; the clock advances between calls.
NextReport ==
    \/ init
    \/ tick /\ \A t \in Tasks : pc[t] = "idle"
    \/ \E t \in Tasks :
          /\ OthersIdle(t)
          /\ UpsertAnonStep(t) \/ ClearStep(t) \/ BanStep(t) \/ ExportStep(t)

SpecReport == InitSeeded /\ [][NextReport]_vars

\* ------------------------------------------------------------- handlers
\* The text of a completion, and the text generate_response returns when the
\* completion service fails.
Completion == "reply"

FallbackText == "sorry"

Conversations == {"text", "voice"}

\* The handler of coroutine t is at the store call `at` and the coroutine is
\* not inside a store call: the call has not been issued.
At(t, h, at) ==
    /\ flow[t].handler \in h
    /\ flow[t].at = at
    /\ pc[t] = "idle"

\* the conversations of sender u that are under way
UnderWay(u) ==
    {o \in Tasks : flow[o].handler \in Conversations /\ flow[o].sender = u}

\* An update arrives and the dispatcher runs handler h for it in a coroutine
\* that runs no handler.
Dispatch(t, h, f) ==
    /\ main = "polling"
    /\ flow[t].handler = ""
    /\ pc[t] = "idle"
    /\ \A o \in Tasks : o < t => flow[o].handler # ""
    /\ flow' = [o \in Tasks |->
                  IF o = t THEN [f EXCEPT !.handler = h]
                  ELSE IF h \in {"start", "reset"} /\ o \in UnderWay(f.sender)
                       THEN [flow[o] EXCEPT !.resets = @ \cup {t}]
                       ELSE flow[o]]
    /\ UNCHANGED <<db, max_messages, now, tables, disk, inserted, recent,
                   admin_user_ids, main, pc, arg>>

\* Faulty variant: the messages of one user are handled one at a time
text_message_handler_serialised(t, u, c) ==
    /\ UnderWay(u) = {}
    /\ Dispatch(t, "text", [NoFlow EXCEPT !.at = "is_banned", !.sender = u,
                                          !.text = c, !.before = UnderWay(u)])

text_message_handler(t, u, c) ==
    Dispatch(t, "text", [NoFlow EXCEPT !.at = "is_banned", !.sender = u,
                                       !.text = c, !.before = UnderWay(u)])

voice_message_handler(t, u) ==
    Dispatch(t, "voice", [NoFlow EXCEPT !.at = "is_banned", !.sender = u,
                                        !.before = UnderWay(u)])

command_start_handler(t, u) ==
    Dispatch(t, "start", [NoFlow EXCEPT !.at = "upsert_user", !.sender = u])

command_reset_handler(t, u) ==
    Dispatch(t, "reset", [NoFlow EXCEPT !.at = "clear", !.sender = u])

web_app_data_handler(t, u) ==
    Dispatch(t, "web_app", [NoFlow EXCEPT !.at = "get_notification_admin_ids",
                                          !.sender = u])

\* if await dialog_history.is_banned(user_id): return
await_is_banned(t) ==
    /\ At(t, Conversations, "is_banned")
    /\ is_banned_execute(t, flow[t].sender)

await_upsert_user(t) ==
    /\ At(t, Conversations \cup {"start"}, "upsert_user")
    /\ upsert_user_execute(t, flow[t].sender, NULL)

\* The voice message is fetched and transcribed, or the handler answers that
\* it could not and returns.
transcribe(t) ==
    /\ At(t, {"voice"}, "transcribe")
    /\ \/ \E c \in Contents :
            flow' = [flow EXCEPT ![t].text = c, ![t].at = "get_history"]
       \/ flow' = [flow EXCEPT ![t] = NoFlow]
    /\ UNCHANGED <<db, max_messages, now, tables, disk, inserted, recent,
                   admin_user_ids, main, pc, arg>>

await_get_history(t) ==
    /\ At(t, Conversations, "get_history")
    /\ get_history_execute(t, flow[t].sender)

\* Faulty variant: a failure of the completion service ends the handler
generate_response_raises(t) ==
    /\ At(t, Conversations, "generate_response")
    /\ \/ flow' = [flow EXCEPT ![t].response = Completion,
                               ![t].calls = Append(@, "generate_response"),
                               ![t].at = "add_message_user"]
       \/ flow' = [flow EXCEPT ![t] = NoFlow]
    /\ UNCHANGED <<db, max_messages, now, tables, disk, inserted, recent,
                   admin_user_ids, main, pc, arg>>

\* LLMService.generate_response: the completion, or the fallback text when
\* the completion service fails.
generate_response(t) ==
    /\ At(t, Conversations, "generate_response")
    /\ \E r \in {Completion, FallbackText} :
          flow' = [flow EXCEPT ![t].response = r,
                               ![t].calls = Append(@, "generate_response"),
                               ![t].at = "add_message_user"]
    /\ UNCHANGED <<db, max_messages, now, tables, disk, inserted, recent,
                   admin_user_ids, main, pc, arg>>

await_add_message_user(t) ==
    /\ At(t, Conversations, "add_message_user")
    /\ add_message_insert(t, flow[t].sender, "user", flow[t].text)

await_add_message_assistant(t) ==
    /\ At(t, Conversations, "add_message_assistant")
    /\ add_message_insert(t, flow[t].sender, "assistant", flow[t].response)

await_clear(t) ==
    /\ At(t, {"start", "reset"}, "clear")
    /\ clear_execute(t, flow[t].sender)

\* --- administrator commands
\* Faulty variant: every sender passes for an administrator
is_admin_anyone(u) == TRUE

\* _is_admin(user_id): return user_id in admin_user_ids
is_admin(u) == u \in admin_user_ids

\* if not _is_admin(message.from_user.id): return
\* Faulty variant: an administrator is banned like anyone else
command_ban_handler_bans_admins(t, u, target) ==
    Dispatch(t, "ban",
       [NoFlow EXCEPT !.sender = u, !.target = target,
           !.at = IF ~is_admin(u) THEN "return" ELSE "ban_user"])

command_ban_handler(t, u, target) ==
    Dispatch(t, "ban",
       [NoFlow EXCEPT !.sender = u, !.target = target,
           !.at = IF ~is_admin(u) THEN "return"
                  ELSE IF target \in admin_user_ids THEN "answer"
                  ELSE "ban_user"])

command_unban_handler(t, u, target) ==
    Dispatch(t, "unban",
       [NoFlow EXCEPT !.sender = u, !.target = target,
           !.at = IF ~is_admin(u) THEN "return" ELSE "unban_user"])

\* /setadmin (the list), /setadmin <id> (add), /setadmin remove <id>
SetadminForms ==
    [list |-> "get_notification_admin_ids", add |-> "add_notification_admin",
     remove |-> "remove_notification_admin"]

command_setadmin_handler(t, u, form, target) ==
    Dispatch(t, "setadmin",
       [NoFlow EXCEPT !.sender = u, !.target = target,
           !.at = IF ~is_admin(u) THEN "return" ELSE SetadminForms[form]])

command_broadcast_handler(t, u) ==
    /\ is_admin(u)
    /\ Dispatch(t, "broadcast", [NoFlow EXCEPT !.sender = u,
                                               !.at = "get_all_user_ids"])

\* main.handle_notify: POST /notify
handle_notify(t) ==
    Dispatch(t, "notify", [NoFlow EXCEPT !.at = "get_notification_admin_ids"])

await_ban_user(t) ==
    /\ At(t, {"ban"}, "ban_user")
    /\ ban_user_execute(t, flow[t].target)

await_unban_user(t) ==
    /\ At(t, {"unban"}, "unban_user")
    /\ unban_user_execute(t, flow[t].target)

await_add_notification_admin(t) ==
    /\ At(t, {"setadmin"}, "add_notification_admin")
    /\ add_notification_admin_execute(t, flow[t].target)

await_remove_notification_admin(t) ==
    /\ At(t, {"setadmin"}, "remove_notification_admin")
    /\ remove_notification_admin_execute(t, flow[t].target)

await_get_all_user_ids(t) ==
    /\ At(t, {"broadcast"}, "get_all_user_ids")
    /\ get_all_user_ids_execute(t)

await_get_notification_admin_ids(t) ==
    /\ At(t, {"web_app", "notify", "setadmin"}, "get_notification_admin_ids")
    /\ get_notification_admin_ids_execute(t)

Bulk == {"broadcast", "web_app", "notify"}

\* one turn of the loop: bot.send_message to the next recipient succeeds
\* (ok) or raises
Attempt(f, ok) ==
    LET uid == f.recipients[Len(f.attempted) + 1]
    IN  [f EXCEPT !.attempted = Append(@, uid),
                  !.delivered = IF ok THEN Append(@, uid) ELSE @,
                  !.sent      = IF ok THEN @ + 1 ELSE @,
                  !.failed    = IF ok THEN @ ELSE @ + 1]

\* Faulty variant: no try/except around send_message, a failure ends the loop
send_message_unguarded(t) ==
    /\ At(t, Bulk, "send_message")
    /\ Len(flow[t].attempted) < Len(flow[t].recipients)
    /\ \/ flow' = [flow EXCEPT ![t] = Attempt(flow[t], TRUE)]
       \/ flow' = [flow EXCEPT ![t] = [Attempt(flow[t], FALSE) EXCEPT !.at = "answer"]]
    /\ UNCHANGED <<db, max_messages, now, tables, disk, inserted, recent,
                   admin_user_ids, main, pc, arg>>

\* for uid in ids: try: await bot.send_message(uid, text) except Exception: ...
send_message(t) ==
    /\ At(t, Bulk, "send_message")
    /\ Len(flow[t].attempted) < Len(flow[t].recipients)
    /\ \E ok \in BOOLEAN : flow' = [flow EXCEPT ![t] = Attempt(flow[t], ok)]
    /\ UNCHANGED <<db, max_messages, now, tables, disk, inserted, recent,
                   admin_user_ids, main, pc, arg>>

\* the loop is over
send_message_done(t) ==
    /\ At(t, Bulk, "send_message")
    /\ Len(flow[t].attempted) = Len(flow[t].recipients)
    /\ flow' = [flow EXCEPT ![t].at = "answer"]
    /\ UNCHANGED <<db, max_messages, now, tables, disk, inserted, recent,
                   admin_user_ids, main, pc, arg>>

\* --- the store call returns to the handler
CommitPoints ==
    {"upsert_user_commit", "add_message_commit", "clear_commit",
     "ban_user_commit", "unban_user_commit", "add_notification_admin_commit",
     "remove_notification_admin_commit"}

ReturnPoints ==
    {"is_banned_return", "get_history_return", "get_all_user_ids_return",
     "get_notification_admin_ids_return"}

\* the handler f after the store call it awaited has returned a
Resumed(f, a) ==
    LET g == [f EXCEPT !.calls = Append(@, IF f.at \in {"add_message_user",
                                                        "add_message_assistant"}
                                           THEN "add_message" ELSE f.at)]
    IN  CASE f.at = "is_banned" ->
                IF a.found THEN NoFlow ELSE [g EXCEPT !.at = "upsert_user"]
          [] f.at = "upsert_user" ->
                [g EXCEPT !.at = IF f.handler = "start" THEN "clear"
                                 ELSE IF f.handler = "voice" THEN "transcribe"
                                 ELSE "get_history"]
          [] f.at = "get_history" ->
                [g EXCEPT !.history = a.rows, !.at = "generate_response"]
          [] f.at = "add_message_user" ->
                [g EXCEPT !.turns = Append(@, a.id), !.at = "add_message_assistant"]
          [] f.at = "add_message_assistant" ->
                [g EXCEPT !.turns = Append(@, a.id), !.at = "answer"]
          [] f.at = "clear" ->
                IF f.handler = "start" THEN NoFlow ELSE [g EXCEPT !.at = "answer"]
          [] f.at \in {"ban_user", "unban_user", "add_notification_admin",
                       "remove_notification_admin"} ->
                [g EXCEPT !.at = "answer"]
          [] f.at \in {"get_all_user_ids", "get_notification_admin_ids"} ->
                IF f.handler = "setadmin"
                THEN [g EXCEPT !.at = "answer"]
                ELSE [g EXCEPT !.recipients = a.rows, !.at = "send_message"]

await_returns(t) ==
    /\ flow[t].handler # ""
    /\ \/ pc[t] \in CommitPoints /\ Commit(t)
       \/ /\ pc[t] \in ReturnPoints
          /\ pc' = [pc EXCEPT ![t] = "idle"]
          /\ arg' = [arg EXCEPT ![t] = NoArg]
          /\ UNCHANGED <<db, max_messages, now, tables, disk, inserted, recent>>
    /\ flow' = [o \in Tasks |->
                  IF o = t THEN Resumed(flow[t], arg[t])
                  ELSE IF flow[t].at = "clear" /\ t \in flow[o].resets
                       THEN [flow[o] EXCEPT !.resets = @ \ {t}, !.cleared = TRUE]
                       ELSE flow[o]]
    /\ UNCHANGED <<admin_user_ids, main>>

\* await message.answer(...) and the handler returns
answer(t) ==
    /\ At(t, {"text", "voice", "reset", "ban", "unban", "setadmin"} \cup Bulk,
          "answer")
    /\ flow' = [flow EXCEPT ![t] = NoFlow]
    /\ UNCHANGED <<db, max_messages, now, tables, disk, inserted, recent,
                   admin_user_ids, main, pc, arg>>

\* the sender is not an administrator: the handler returns without a word
returns(t) ==
    /\ At(t, {"ban", "unban", "setadmin"}, "return")
    /\ flow' = [flow EXCEPT ![t] = NoFlow]
    /\ UNCHANGED <<db, max_messages, now, tables, disk, inserted, recent,
                   admin_user_ids, main, pc, arg>>

\* --- the service after startup, with the database of an earlier run
InitServing ==
    /\ db = "open"
    /\ max_messages \in 1..MaxWindow
    /\ now = 0
    /\ users = SeedUsers
    /\ messages = {}
    /\ seq = 0
    /\ banned_users \in SUBSET UserIds
    /\ notification_admins \in SUBSET UserIds
    /\ disk = Snapshot
    /\ inserted = <<>>
    /\ recent = SeedCalls(banned_users, notification_admins)
    /\ admin_user_ids \in SUBSET UserIds
    /\ flow = [t \in Tasks |-> NoFlow]
    /\ main = "polling"
    /\ pc = [t \in Tasks |-> "idle"]
    /\ arg = [t \in Tasks |-> NoArg]

ConversationStep(t) ==
    \/ await_is_banned(t)
    \/ await_upsert_user(t)
    \/ await_get_history(t)
    \/ generate_response(t)
    \/ await_add_message_user(t)
    \/ add_message_trim(t)
    \/ await_add_message_assistant(t)
    \/ await_returns(t)
    \/ answer(t)

\* Inbound events of any sender, handled one after another.
NextInbound ==
    \E t \in Tasks :
       /\ OthersIdle(t)
       /\ \A o \in Tasks \ {t} : flow[o].handler = ""
       /\ \/ \E u \in UserIds, c \in Contents : text_message_handler(t, u, c)
          \/ \E u \in UserIds : voice_message_handler(t, u)
          \/ \E u \in UserIds : command_start_handler(t, u)
          \/ \E u \in UserIds : command_reset_handler(t, u)
          \/ \E u \in UserIds : web_app_data_handler(t, u)
          \/ transcribe(t)
          \/ await_clear(t)
          \/ await_get_notification_admin_ids(t)
          \/ send_message(t)
          \/ send_message_done(t)
          \/ ConversationStep(t)

InitInbound == InitServing /\ admin_user_ids = {}

SpecInbound == InitInbound /\ [][NextInbound]_vars

\* ------------------------------------------------------------- commands
\* /ban and /unban of any sender and any target, /start and /reset, in
\* interleaving coroutines; the ban set starts empty.
CommandStep(t) ==
    \/ \E u \in UserIds, target \in UserIds : command_ban_handler(t, u, target)
    \/ \E u \in UserIds, target \in UserIds : command_unban_handler(t, u, target)
    \/ \E u \in UserIds : command_start_handler(t, u)
    \/ \E u \in UserIds : command_reset_handler(t, u)
    \/ await_ban_user(t)
    \/ await_unban_user(t)
    \/ await_upsert_user(t)
    \/ await_clear(t)
    \/ await_returns(t)
    \/ answer(t)
    \/ returns(t)

NextCommands == \E t \in Tasks : CommandStep(t)

InitCommands ==
    /\ InitServing
    /\ max_messages = 1
    /\ banned_users = {}
    /\ notification_admins = {}

SpecCommands == InitCommands /\ [][NextCommands]_vars

\* ------------------------------------------------------------- bulk delivery
\* /broadcast of an administrator, POST /notify, web-app commands and /start
\* (which registers users), handled one after another.
BulkStep(t) ==
    \/ \E u \in UserIds : command_broadcast_handler(t, u)
    \/ handle_notify(t)
    \/ \E u \in UserIds : web_app_data_handler(t, u)
    \/ \E u \in UserIds : command_start_handler(t, u)
    \/ await_get_all_user_ids(t)
    \/ await_get_notification_admin_ids(t)
    \/ send_message(t)
    \/ send_message_done(t)
    \/ await_upsert_user(t)
    \/ await_clear(t)
    \/ await_returns(t)
    \/ answer(t)

NextBulk ==
    \E t \in Tasks :
       /\ OthersIdle(t)
       /\ \A o \in Tasks \ {t} : flow[o].handler = ""
       /\ BulkStep(t)

InitBulk == InitServing /\ max_messages = 1 /\ banned_users = {}

SpecBulk == InitBulk /\ [][NextBulk]_vars

\* ------------------------------------------------------------- conversations
\* Text messages of user 1 in interleaving coroutines, at most two of them
\* being handled at a time; nobody is banned.
NextText ==
    \E t \in Tasks :
       \/ /\ Cardinality(UnderWay(1)) <= 1
          /\ \E c \in Contents : text_message_handler(t, 1, c)
       \/ ConversationStep(t)

InitText ==
    /\ InitServing
    /\ max_messages = MaxWindow
    /\ banned_users = {}
    /\ notification_admins = {}
    /\ admin_user_ids = {}

SpecText == InitText /\ [][NextText]_vars

\* ------------------------------------------------------------- main()
\* await dialog_history.init()
main_init ==
    /\ main = "start"
    /\ init

\* The services are constructed, the knowledge base is loaded and
\* setup_services hands the store and config.admin_user_ids to the handlers.
setup_services ==
    /\ main = "start"
    /\ db = "open"
    /\ admin_user_ids' \in SUBSET UserIds
    /\ main' = "startup"
    /\ UNCHANGED <<db, max_messages, now, tables, disk, inserted, recent, flow,
                   pc, arg>>

\* A startup step after init() raises (knowledge_base_service.load,
\* bot.set_chat_menu_button, bot.delete_my_commands, runner.setup,
\* site.start): the exception leaves main(), no try statement is open yet.
startup_raises ==
    /\ \/ main = "start" /\ db = "open"
       \/ main = "startup"
    /\ main' = "raised"
    /\ UNCHANGED <<db, max_messages, now, tables, disk, inserted, recent,
                   admin_user_ids, flow, pc, arg>>

\* try: await dp.start_polling(bot)
start_polling ==
    /\ main = "startup"
    /\ main' = "polling"
    /\ UNCHANGED <<db, max_messages, now, tables, disk, inserted, recent,
                   admin_user_ids, flow, pc, arg>>

\* Polling stops, normally or by an exception, while no update is being
\* handled: finally
polling_ends ==
    /\ main = "polling"
    /\ \A t \in Tasks : flow[t].handler = "" /\ pc[t] = "idle"
    /\ main' = "finally"
    /\ UNCHANGED <<db, max_messages, now, tables, disk, inserted, recent,
                   admin_user_ids, flow, pc, arg>>

\* finally: ... await dialog_history.close()
main_close ==
    /\ main = "finally"
    /\ close

\* ... await bot.session.close() and main() returns
main_returns ==
    /\ main = "finally"
    /\ db = "none"
    /\ main' = "stopped"
    /\ UNCHANGED <<db, max_messages, now, tables, disk, inserted, recent,
                   admin_user_ids, flow, pc, arg>>

\* main() from its first line on a used database; while it polls,
\* administrator commands, /start and /reset are handled one after another.
NextMain ==
    \/ main_init
    \/ setup_services
    \/ startup_raises
    \/ start_polling
    \/ polling_ends
    \/ main_close
    \/ main_returns
    \/ \E t \in Tasks :
          /\ OthersIdle(t)
          /\ \A o \in Tasks \ {t} : flow[o].handler = ""
          /\ CommandStep(t)

SpecMain == InitSeeded /\ [][NextMain]_vars

\* ------------------------------------------------------------- access control
\* /ban, /unban and /setadmin of any sender, in interleaving coroutines, at
\* most two commands being handled at a time.
PrivilegedCommand(t) ==
    \/ \E u \in UserIds, target \in UserIds : command_ban_handler(t, u, target)
    \/ \E u \in UserIds, target \in UserIds : command_unban_handler(t, u, target)
    \/ \E u \in UserIds, form \in DOMAIN SetadminForms, target \in UserIds :
          command_setadmin_handler(t, u, form, target)

PrivilegedStep(t) ==
    \/ /\ Cardinality({o \in Tasks : flow[o].handler # ""}) <= 1
       /\ PrivilegedCommand(t)
    \/ await_ban_user(t)
    \/ await_unban_user(t)
    \/ await_add_notification_admin(t)
    \/ await_remove_notification_admin(t)
    \/ await_get_notification_admin_ids(t)
    \/ await_returns(t)
    \/ answer(t)
    \/ returns(t)

NextPrivileged == \E t \in Tasks : PrivilegedStep(t)

SpecPrivileged == InitCommands /\ [][NextPrivileged]_vars

\* ------------------------------------------------------------- moderation
\* Text messages of user 1 while administrator 2 bans and unbans user 1, in
\* interleaving coroutines, at most two updates being handled at a time.
ModerationStep(t) ==
    \/ /\ Cardinality({o \in Tasks : flow[o].handler # ""}) <= 1
       /\ \/ text_message_handler(t, 1, "a")
          \/ command_ban_handler(t, 2, 1)
          \/ command_unban_handler(t, 2, 1)
    \/ await_ban_user(t)
    \/ await_unban_user(t)
    \/ ConversationStep(t)

NextModeration == \E t \in Tasks : ModerationStep(t)

InitModeration ==
    /\ InitServing
    /\ max_messages = MaxWindow
    /\ banned_users = {}
    /\ notification_admins = {}
    /\ admin_user_ids = {2}

SpecModeration == InitModeration /\ [][NextModeration]_vars

\* ------------------------------------------------------------- session reset
\* Text messages, /reset and /start of user 1 in interleaving coroutines, at
\* most two of them being handled at a time; nobody is banned.
NextReset ==
    \E t \in Tasks :
       \/ /\ Cardinality({o \in Tasks : flow[o].handler # ""}) <= 1
          /\ \/ text_message_handler(t, 1, "a")
             \/ command_reset_handler(t, 1)
             \/ command_start_handler(t, 1)
       \/ await_clear(t)
       \/ ConversationStep(t)

SpecReset == InitText /\ [][NextReset]_vars

\* ------------------------------------------------------------- statistics race
\* get_stats while add_message and clear calls of other coroutines run
\* between its SELECTs; users register while no other call is under way.
NextCounts ==
    \/ init
    \/ \E t \in Tasks :
          \/ \E u \in UserIds, r \in Roles : add_message_insert(t, u, r, "a")
          \/ add_message_trim(t)
          \/ add_message_commit(t)
          \/ ClearStep(t)
          \/ StatsStep(t)
          \/ OthersIdle(t) /\ UpsertAnonStep(t)

InitCounts == Init /\ max_messages = MaxWindow

SpecCounts == InitCounts /\ [][NextCounts]_vars

\* ------------------------------------------------------------- timestamps
\* Upserts and clears of interleaving coroutines while time passes.
NextSeen ==
    \/ init
    \/ tick
    \/ \E t \in Tasks : (UpsertAnonStep(t) \/ ClearStep(t))

SpecSeen == Init /\ [][NextSeen]_vars

\* C12 upsert_user creates the User row when it is absent; on a present row
\* it leaves first_seen as it was and sets last_seen to the current time; no
\* step of any other store operation changes first_seen of a present row.
C12_FirstSeenOnce ==
    /\ [][\A t \in Tasks, u \in UserIds, n \in Usernames :
             upsert_user_execute(t, u, n) =>
                /\ users'[u].present
                /\ users'[u].last_seen = now
                /\ users[u].present => users'[u].first_seen = users[u].first_seen]_vars
    /\ [][\A u \in UserIds :
             users[u].present =>
                users'[u].present /\ users'[u].first_seen = users[u].first_seen]_vars

\* a second upsert_user has run later than the one that created the row
C12_Witness ==
    \E t \in Tasks :
       /\ pc[t] = "upsert_user_commit"
       /\ users[arg[t].user_id].first_seen < users[arg[t].user_id].last_seen
       /\ users[arg[t].user_id].last_seen = now
       /\ disk.users[arg[t].user_id].present

KnownUserIds == {u \in UserIds : users[u].present}

\* C13 User rows are never deleted: every step of every store operation
\* leaves the set of known user ids a superset of what it was.
C13_UsersOnlyGrow ==
    [][KnownUserIds \subseteq {u \in UserIds : users'[u].present}]_vars

\* clear(u) has run on a known user whose messages are gone, and a user
\* not known at the start has been added
C13_Witness ==
    \E t \in Tasks :
       /\ pc[t] = "clear_commit"
       /\ arg[t].user_id = 1
       /\ OfUser(messages, 1) = {}
       /\ KnownUserIds = UserIds

\* C14 The ban list is an idempotent set: is_banned(u) returns true exactly
\* when the latest ban_user/unban_user statement for u was a ban (false when
\* there was none); ban_user on a banned id and unban_user on an id that is
\* not banned run to their commit without an error and leave the ban set as
\* it was.
C14_BanIdempotent ==
    /\ [](\A u \in UserIds : u \in banned_users <=> recent.ban[u] = "ban")
    /\ [](\A t \in Tasks, u \in UserIds :
            (StoreAvailable /\ Free(t)) =>
               /\ u \in banned_users => ENABLED ban_user_execute(t, u)
               /\ u \notin banned_users => ENABLED unban_user_execute(t, u))
    /\ [][\A t \in Tasks, u \in UserIds :
             /\ is_banned_execute(t, u) => arg'[t].found = (recent.ban[u] = "ban")
             /\ (ban_user_execute(t, u) /\ u \in banned_users)
                   => banned_users' = banned_users /\ pc'[t] = "ban_user_commit"
             /\ (unban_user_execute(t, u) /\ u \notin banned_users)
                   => banned_users' = banned_users /\ pc'[t] = "unban_user_commit"]_vars

\* is_banned(u) has answered false for an id whose latest call was
\* unban_user, while another id is banned
C14_Witness ==
    \E t \in Tasks :
       /\ pc[t] = "is_banned_return"
       /\ ~arg[t].found
       /\ recent.ban[arg[t].user_id] = "unban"
       /\ banned_users # {}

\* C15 The notification-admin list is an idempotent set:
\* get_notification_admin_ids() returns, without duplicates, exactly the ids
\* whose latest add/remove statement was an add; adding a member again and
\* removing an id that is not a member run to their commit and leave the
\* set as it was.
C15_AdminIdempotent ==
    /\ [][\A t \in Tasks :
             get_notification_admin_ids_execute(t) =>
                LET ids == arg'[t].rows
                IN  /\ \A i, j \in 1..Len(ids) : i # j => ids[i] # ids[j]
                    /\ {ids[i] : i \in 1..Len(ids)}
                          = {u \in UserIds : recent.admin[u] = "add"}]_vars
    /\ [](\A t \in Tasks, u \in UserIds :
            (StoreAvailable /\ Free(t)) =>
               /\ u \in notification_admins
                     => ENABLED add_notification_admin_execute(t, u)
               /\ u \notin notification_admins
                     => ENABLED remove_notification_admin_execute(t, u))
    /\ [][\A t \in Tasks, u \in UserIds :
             /\ (add_notification_admin_execute(t, u) /\ u \in notification_admins)
                   => /\ notification_admins' = notification_admins
                      /\ pc'[t] = "add_notification_admin_commit"
             /\ (remove_notification_admin_execute(t, u) /\ u \notin notification_admins)
                   => /\ notification_admins' = notification_admins
                      /\ pc'[t] = "remove_notification_admin_commit"]_vars

\* get_notification_admin_ids() has returned one id while the latest call
\* for the other id was a remove
C15_Witness ==
    \E t \in Tasks :
       /\ pc[t] = "get_notification_admin_ids_return"
       /\ Len(arg[t].rows) = 1
       /\ \E u \in UserIds : recent.admin[u] = "remove"

\* C16 Ban set, notification-admin set and User table are independent:
\* ban_user/unban_user leave the notification-admin set as it was,
\* add/remove_notification_admin leave the ban set as it was, none of the
\* four changes a User row or a message, and each of them runs for an id
\* that has no User row.
C16_AccessIndependent ==
    /\ [](\A t \in Tasks, u \in UserIds :
            (StoreAvailable /\ Free(t) /\ ~users[u].present) =>
               /\ ENABLED ban_user_execute(t, u)
               /\ ENABLED unban_user_execute(t, u)
               /\ ENABLED add_notification_admin_execute(t, u)
               /\ ENABLED remove_notification_admin_execute(t, u))
    /\ [][\A t \in Tasks :
             /\ (pc[t] = "idle" /\ pc'[t] \in {"ban_user_commit", "unban_user_commit"})
                   => /\ notification_admins' = notification_admins
                      /\ users' = users /\ messages' = messages /\ seq' = seq
             /\ (pc[t] = "idle" /\ pc'[t] \in {"add_notification_admin_commit",
                                                "remove_notification_admin_commit"})
                   => /\ banned_users' = banned_users
                      /\ users' = users /\ messages' = messages /\ seq' = seq
             /\ (pc[t] \in {"ban_user_commit", "unban_user_commit",
                             "add_notification_admin_commit",
                             "remove_notification_admin_commit"} /\ pc'[t] = "idle")
                   => UNCHANGED tables]_vars

\* ban_user has run for an id without a User row that is subscribed to
\* notifications, while messages are stored
C16_Witness ==
    \E t \in Tasks :
       /\ pc[t] = "ban_user_commit"
       /\ ~users[arg[t].user_id].present
       /\ arg[t].user_id \in banned_users
       /\ arg[t].user_id \in notification_admins
       /\ messages # {}

\* C17 clear(u) removes every message of u, so that get_message_count(u) is
\* 0 when the call has completed, and leaves the User row of u, the messages
\* of every other user, the ban set and the notification-admin set as they
\* were.
C17_ClearFrame ==
    [][\A t \in Tasks :
          /\ \A u \in UserIds :
                clear_execute(t, u) =>
                   /\ get_message_count(messages', u) = 0
                   /\ users' = users
                   /\ \A o \in UserIds \ {u} : OfUser(messages', o) = OfUser(messages, o)
                   /\ banned_users' = banned_users
                   /\ notification_admins' = notification_admins
          /\ clear_commit(t) =>
                /\ get_message_count(messages', arg[t].user_id) = 0
                /\ UNCHANGED tables]_vars

\* clear(1) has deleted the messages of the known user 1 while user 2 has
\* messages and both sets have members
C17_Witness ==
    \E t \in Tasks :
       /\ pc[t] = "clear_commit"
       /\ arg[t].user_id = 1
       /\ users[1].present
       /\ 1 \in {m.user_id : m \in disk.messages}
       /\ OfUser(messages, 1) = {}
       /\ OfUser(messages, 2) # {}
       /\ banned_users # {}
       /\ notification_admins # {}

\* C18 Store unavailable: while the store is not open (before init() or
\* after close()), every store operation can be called and the call does
\* nothing but raise; a call that was cut by close() raises at its next
\* statement; the raised error reaches the caller; and no step taken while
\* the store is not open changes the persisted state.
C18_StoreUnavailable ==
    /\ [](\A t \in Tasks :
            /\ (db = "none" /\ Free(t))
                  => \A op \in StoreOps : ENABLED store_unavailable(t, op)
            /\ pc[t] = "raised" => ENABLED raise_propagates(t))
    /\ [][\A t \in Tasks :
             (db = "none" /\ db' = "none" /\ pc'[t] # pc[t])
                => /\ pc[t] # "raised" => pc'[t] = "raised"
                   /\ UNCHANGED <<tables, disk>>]_vars
    /\ [][db = "none" => disk' = disk]_vars

\* add_message was called after close() on a store that holds committed
\* rows, and has raised
C18_Witness ==
    \E t \in Tasks :
       /\ db = "none"
       /\ pc[t] = "raised"
       /\ arg[t].op = "add_message"
       /\ disk.notification_admins # {}

RECURSIVE SumOfCounts(_)
SumOfCounts(S) ==
    IF S = {} THEN 0
    ELSE LET u == CHOOSE x \in S : TRUE
         IN  get_message_count(messages, u) + SumOfCounts(S \ {u})

\* C20 get_stats() on a store with no other call in flight returns
\* total_users = the number of User rows, total_messages = the number of
\* retained messages, which is the sum of get_message_count(u) over the
\* users, and user_messages = the number of retained messages with role
\* 'user'.
C20_StatsCounts ==
    \A t \in Tasks :
       pc[t] = "get_stats_return" =>
          /\ arg[t].stats.total_users = Cardinality(KnownUserIds)
          /\ arg[t].stats.total_messages = SumOfCounts(UserIds)
          /\ arg[t].stats.total_messages = Cardinality(messages)
          /\ arg[t].stats.user_messages
                = Cardinality({m \in messages : m.role = "user"})

\* get_stats() has returned for two known users with three retained
\* messages of both roles
C20_Witness ==
    \E t \in Tasks :
       /\ pc[t] = "get_stats_return"
       /\ arg[t].stats.total_users = 2
       /\ arg[t].stats.total_messages = 3
       /\ arg[t].stats.user_messages \in {1, 2}
       /\ \A u \in UserIds : get_message_count(messages, u) >= 1

\* C21 get_all_users() returns exactly one record per User row, each with
\* msg_count = the number of retained role-'user' messages of that user and
\* is_banned = membership of the id in the ban set, in an order in which
\* last_seen never increases.
C21_AllUsers ==
    [][\A t \in Tasks :
          get_all_users_execute(t) =>
             LET r == arg'[t].rows
             IN  /\ Len(r) = Cardinality(KnownUserIds)
                 /\ \A u \in KnownUserIds :
                       \E i \in 1..Len(r) :
                          /\ r[i].user_id = u
                          /\ r[i].msg_count
                                = Cardinality({m \in messages :
                                                 m.user_id = u /\ m.role = "user"})
                          /\ r[i].is_banned = (u \in banned_users)
                          /\ r[i].last_seen = users[u].last_seen
                 /\ \A i, j \in 1..Len(r) :
                       i < j => r[i].last_seen >= r[j].last_seen]_vars

\* get_all_users() has listed user 2, seen later, before user 1, who has a
\* retained 'user' message, with one of them banned
C21_Witness ==
    \E t \in Tasks :
       /\ pc[t] = "get_all_users_return"
       /\ Len(arg[t].rows) = 2
       /\ arg[t].rows[1].user_id = 2
       /\ arg[t].rows[1].last_seen > arg[t].rows[2].last_seen
       /\ arg[t].rows[2].msg_count = 1
       /\ \E i \in 1..2 : arg[t].rows[i].is_banned

\* the report a coroutine holds when its export_data() has returned
Exported(t) == ExportText(arg[t].rows, arg[t].stats)

ExportDone(t) == pc[t] = "get_stats_return" /\ arg[t].op = "export_data"

\* C22 Export completeness, also with add_message, clear or upsert_user
\* running beside the export: the report has exactly one user line per User
\* row of the state its user query ran on, and the figures of its final
\* section are those of get_stats() on one store state, so that the
\* 'user' messages and the users active today are not more than the
\* messages in total.
C22_ExportComplete ==
    /\ [][\A t \in Tasks :
             export_data_get_all_users(t) =>
                LET r == arg'[t].rows
                IN  /\ Len(r) = Cardinality(KnownUserIds)
                    /\ \A u \in KnownUserIds : \E i \in 1..Len(r) : r[i].user_id = u]_vars
    /\ [](\A t \in Tasks :
            ExportDone(t) =>
               /\ Exported(t).user_messages <= Exported(t).total_messages
               /\ Exported(t).active_today <= Exported(t).total_messages)

\* the position of the line of user u in a report on the rows us: after the
\* users seen later, and after the users seen at the same time with a
\* smaller id
LinePosition(us, u) ==
    1 + Cardinality({v \in UserIds :
                        /\ us[v].present
                        /\ \/ us[v].last_seen > us[u].last_seen
                           \/ us[v].last_seen = us[u].last_seen /\ v < u})

\* the report as a function of the rows of the store and the clock only
ReportOf(us, msgs, banned, clock) ==
    LET known == {u \in UserIds : us[u].present}
        at(i) == CHOOSE u \in known : LinePosition(us, u) = i
    IN  [total_users    |-> Cardinality(known),
         lines          |-> [i \in 1..Cardinality(known) |->
                               UserLine(UserRecord(us, msgs, banned, at(i)))],
         total_messages |-> Cardinality(msgs),
         user_messages  |-> Cardinality({m \in msgs : m.role = "user"}),
         active_today   |-> Cardinality({m.user_id : m \in
                               {x \in msgs : x.created_at >= DateOf(clock)}})]

C30_AddMessageFrame ==
    [][\A t \in Tasks :
          /\ (pc[t] = "idle" /\ pc'[t] = "add_message_trim") =>
                /\ \A o \in UserIds \ {arg'[t].user_id} :
                      OfUser(messages', o) = OfUser(messages, o)
                /\ OfUser(messages', arg'[t].user_id) # OfUser(messages, arg'[t].user_id)
                /\ <<users, banned_users, notification_admins>>' =
                      <<users, banned_users, notification_admins>>
          /\ add_message_trim(t) =>
                /\ \A o \in UserIds \ {arg[t].user_id} :
                      OfUser(messages', o) = OfUser(messages, o)
                /\ <<users, banned_users, notification_admins>>' =
                      <<users, banned_users, notification_admins>>]_vars

\* a trim has just deleted the oldest message of user 1 while user 2 holds
\* messages and the ban and admin sets are not empty
C30_Witness ==
    \E t \in Tasks :
       /\ pc[t] = "add_message_commit"
       /\ arg[t].user_id = 1
       /\ get_message_count(messages, 1) = max_messages
       /\ 1 \notin {m.id : m \in messages}
       /\ 1 \in {m.id : m \in disk.messages}
       /\ OfUser(messages, 2) # {}
       /\ banned_users # {}
       /\ notification_admins # {}

\* the handlers of inbound events of end users
Inbound == {"text", "voice", "start", "reset", "web_app"}

\* C24 Every inbound event of a banned sender (text, voice, /start, /reset,
\* web-app data) consults the ban list first and performs no store mutation:
\* its handler never gets past the ban check, and no step taken while it runs
\* changes the users or the messages table.
C24_BannedSenderIgnored ==
    /\ [](\A t \in Tasks :
             (flow[t].handler \in Inbound /\ flow[t].sender \in banned_users)
                => flow[t].at = "is_banned")
    /\ [][\A t \in Tasks :
             (flow[t].handler \in Inbound /\ flow[t].sender \in banned_users)
                => UNCHANGED <<users, messages>>]_vars

\* C25 Starting from an empty ban set, with admin_user_ids fixed, after any
\* sequence of handler commands (/ban and /unban of any sender included) no
\* id of admin_user_ids is in the ban set.
C25_AdminsNeverBanned ==
    /\ admin_user_ids \cap banned_users = {}
    /\ admin_user_ids \cap disk.banned_users = {}

\* /ban of an administrator has been refused while a user is banned
C25_Witness ==
    /\ banned_users # {}
    /\ admin_user_ids # {}
    /\ \E t \in Tasks :
          /\ flow[t].handler = "ban"
          /\ flow[t].target \in admin_user_ids
          /\ flow[t].at = "answer"

TextCalls ==
    <<"is_banned", "upsert_user", "get_history", "generate_response",
      "add_message", "add_message">>

\* C27 A text message of a sender that is not banned runs is_banned,
\* upsert_user, get_history, generate_response, add_message(user) and
\* add_message(assistant) in this order. Exactly two messages are appended,
\* the user turn with the smaller id; the history passed to generate_response
\* is the window get_history returned, read before either append; both are
\* appended also when the completion service fails, the fallback text being
\* the assistant turn.
C27_TextFlow ==
    /\ [](\A t \in Tasks :
             flow[t].handler = "text" =>
                /\ Len(flow[t].calls) <= Len(TextCalls)
                /\ \A i \in 1..Len(flow[t].calls) : flow[t].calls[i] = TextCalls[i]
                /\ flow[t].at = "generate_response" => flow[t].turns = <<>>
                /\ flow[t].at = "answer" =>
                      /\ flow[t].calls = TextCalls
                      /\ Len(flow[t].turns) = 2
                      /\ flow[t].turns[1] < flow[t].turns[2])
    /\ [][\A t \in Tasks :
             flow[t].handler = "text" =>
                \* the handler ends only after its two appends
                /\ flow'[t].handler = "" =>
                      flow[t].at = "answer" /\ Len(flow[t].turns) = 2
                \* what get_history returned is what generate_response gets
                /\ (pc[t] = "get_history_return" /\ pc'[t] = "idle") =>
                      flow'[t].history = arg[t].rows
                /\ (flow[t].at # "get_history" /\ flow'[t].handler = "text") =>
                      flow'[t].history = flow[t].history
                \* the two appends: the text, then the response
                /\ (pc[t] = "idle" /\ pc'[t] = "add_message_trim") =>
                      messages' = messages \cup
                         {[id         |-> arg'[t].id,
                           user_id    |-> flow[t].sender,
                           role       |-> IF flow[t].turns = <<>> THEN "user"
                                          ELSE "assistant",
                           content    |-> IF flow[t].turns = <<>> THEN flow[t].text
                                          ELSE flow[t].response,
                           created_at |-> now]}
                /\ (flow'[t].handler = "text" /\ flow'[t].turns # flow[t].turns) =>
                      /\ flow'[t].turns = Append(flow[t].turns, arg[t].id)
                      /\ arg[t].id \in InsertedIds(flow[t].sender)]_vars

\* a text message has been handled while the completion service failed: both
\* turns are in the window, the fallback text as the assistant turn
C27_Witness ==
    \E t \in Tasks :
       /\ flow[t].handler = "text"
       /\ flow[t].at = "answer"
       /\ flow[t].response = FallbackText
       /\ \E m, n \in messages :
             /\ m.id = flow[t].turns[1] /\ m.role = "user" /\ m.content = flow[t].text
             /\ n.id = flow[t].turns[2] /\ n.role = "assistant"
             /\ n.content = FallbackText

\* C28 Accepted race: nothing serialises two text messages of one user. While
\* the handler of the first stands between its get_history and its
\* add_message, the handler of a second message of the same user can start
\* and run; so a state is reachable where the window lists the turns in the
\* order the appends completed, not the order the messages were sent, and
\* the context of the second message lacks the first exchange (C28_Witness).
C28_AcceptedRace ==
    \A t \in Tasks :
       (/\ flow[t].handler = "text"
        /\ flow[t].at \in {"generate_response", "add_message_user"}
        /\ pc[t] = "idle"
        /\ \E o \in Tasks : flow[o].handler = "")
          => \A c \in Contents :
                ENABLED (\E o \in Tasks : text_message_handler(o, flow[t].sender, c))

\* "a" was sent before "b"; the handler of "b" read an empty window although
\* "a" was already being handled, and its turn is in the window before "a"
C28_Witness ==
    \E a, b \in Tasks :
       /\ flow[a].handler = "text" /\ flow[a].text = "a"
       /\ flow[b].handler = "text" /\ flow[b].text = "b"
       /\ flow[a].sender = flow[b].sender
       /\ a \in flow[b].before
       /\ flow[b].history = <<>>
       /\ flow[a].turns # <<>> /\ flow[b].turns # <<>>
       /\ flow[b].turns[1] < flow[a].turns[1]
       /\ LET window == get_history(messages, flow[a].sender)
          IN  /\ Len(window) = 2
              /\ window[1] = [role |-> "user", content |-> "b"]
              /\ window[2] = [role |-> "user", content |-> "a"]

\* C29 The store handle is opened exactly once at startup and closed exactly
\* once at shutdown: on every path by which main() ends after init()
\* succeeded (polling stops, or a startup step after init raises) close() has
\* been called; the handle is opened by the init of startup only and closed
\* by the close of shutdown only.
C29_OpenedAndClosedOnce ==
    /\ [](main \in {"raised", "stopped"} => db = "none")
    /\ [][db' # db => \/ main = "start" /\ db' = "open"
                      \/ main = "finally" /\ db' = "none"]_vars

Privileged == {"ban", "unban", "setadmin"}

\* C31 Only senders listed in admin_user_ids change access control: a /ban,
\* /unban or /setadmin command of a sender that is not in admin_user_ids
\* returns at once, and every change of the ban set or of the
\* notification-admin set is a store call of a command whose sender is in
\* admin_user_ids.
C31_OnlyAdmins ==
    /\ [](\A t \in Tasks :
             (flow[t].handler \in Privileged /\ flow[t].sender \notin admin_user_ids)
                => flow[t].at = "return" /\ pc[t] = "idle")
    /\ [][<<banned_users, notification_admins>>' # <<banned_users, notification_admins>>
             => \E t \in Tasks :
                   /\ flow[t].handler \in Privileged
                   /\ flow[t].sender \in admin_user_ids
                   /\ pc[t] = "idle" /\ pc'[t] # "idle"]_vars

\* a /setadmin of a sender that is not an administrator is returning while
\* an administrator's command has changed both sets
C31_Witness ==
    /\ banned_users # {}
    /\ notification_admins # {}
    /\ \E t \in Tasks :
          /\ flow[t].handler = "setadmin"
          /\ flow[t].sender \notin admin_user_ids
          /\ flow[t].at = "return"

\* ban_user(u) has completed and no unban_user(u) has run since
BanInForce(u) ==
    /\ u \in banned_users
    /\ \A t \in Tasks : ~(pc[t] = "ban_user_commit" /\ arg[t].user_id = u)

\* C32 A ban takes effect for all later store writes: once ban_user(u) has
\* completed and until unban_user(u), no message is appended to the window of
\* u, also not by a text or voice flow of u that passed its ban check before
\* the ban and is still waiting for the completion service.
C32_BanStopsWrites ==
    [][\A u \in UserIds :
          BanInForce(u) => OfUser(messages', u) \subseteq OfUser(messages, u)]_vars

\* the rows the add_message calls of conversation t have inserted
Turns(t) ==
    {flow[t].turns[i] : i \in DOMAIN flow[t].turns}
       \cup (IF pc[t] \in {"add_message_trim", "add_message_commit"}
             THEN {arg[t].id} ELSE {})

\* C33 A session reset is not undone by earlier requests: once a /reset or
\* /start of user u has completed its clear(u), the window of u holds no turn
\* of a message that u sent before that command, also not of a message whose
\* handler was waiting for the completion service when the clear ran.
C33_ResetNotUndone ==
    \A t \in Tasks :
       (flow[t].handler \in Conversations /\ flow[t].cleared)
          => \A m \in OfUser(messages, flow[t].sender) : m.id \notin Turns(t)

\* C34 Every result of get_stats() is internally consistent, also when
\* add_message or clear calls run between its four queries: user_messages is
\* at most total_messages, and active_today is at most total_users whenever
\* every message belongs to a registered user.
C34_StatsConsistent ==
    \A t \in Tasks :
       (pc[t] = "get_stats_return" /\ arg[t].op = "")
          => /\ arg[t].stats.user_messages <= arg[t].stats.total_messages
             /\ (\A m \in messages : users[m.user_id].present)
                   => arg[t].stats.active_today <= arg[t].stats.total_users

====
